---------------------------- MODULE Spec2Model ----------------------------
(***************************************************************************)
(* Model of pyfolioclient's FolioBaseClient: the token lifecycle           *)
(* (_retrieve_token, _adjust_for_buffer, _manage_token, _logout), the      *)
(* exception_handler decorator, the four request methods and the           *)
(* iter_data generator.                                                    *)
(*                                                                         *)
(* Time is an integer number of seconds.  Tokens are numbered in the order *)
(* the server issues them; None (no token, no header, no id) is 0.         *)
(***************************************************************************)
EXTENDS Integers, Sequences, FiniteSets, TLC

\* ---------------------------------------------------------------- bounds
MaxTime == 14        \* the clock stops advancing here
MaxTokens == 2       \* tokens the server issues at most
MaxN == 6            \* records the server holds at most
MaxLimit == 2        \* largest page size a caller passes
MaxIterTime == 8     \* the clock stops advancing here while an iteration runs
MaxThreadTime == 6   \* the clock stops advancing here while threads share the client
MaxAuthLog == 2      \* login and refresh requests the threads send at most
MaxYield == 8        \* records a consumer takes from one iterator at most

\* ------------------------------------------------------------- constants
TOKEN_REFRESH_BUFFER == 10
None == 0
Lifetimes == {4, 12}             \* token lifetimes the server hands out
Zero_UUID == 0                   \* uuid.UUID(int=0)

AuthKinds == {"ok", "noaccess", "noexp", "s404", "s500", "connect", "timeout"}
DataKinds == {"ok", "nobody", "s400", "s404", "s500", "connect", "timeout"}

VARIABLES
    pc,                             \* "new", "ready", "failed", "exited"
    now,                            \* the wall clock
    access_token,                   \* self._access_token
    refresh_token,                  \* self._refresh_token
    token_expiration,               \* self._token_expiration
    token_expiration_with_buffer,   \* self._token_expiration_with_buffer
    x_okapi_token,                  \* self.client.headers["x-okapi-token"]
    closed,                         \* self.client.close() was called
    nextTok,                        \* server: next token number to issue
    tokExp,                         \* server: expiry of each issued token
    op,                             \* the operation that ran last
    chk,                            \* what that operation's token check saw
    auth,                           \* the login/refresh response it got
    reqs,                           \* the requests it sent, in order
    answer,                         \* how its own (data, logout) request was answered
    payload,                        \* "empty" or "full" when it was given a payload
    result,                         \* what it returned or raised
    nrec,                           \* server: number of records held
    noid,                           \* server: the record served without "id"
    it,                             \* the iter_data generator's frame
    yielded,                        \* records the consumer received
    cursors,                        \* cursor of each page request sent
    pages,                          \* value get_data returned for each page
    renewed,                        \* token renewals made by page requests after the first
    thr,                            \* each thread's place in its operation
    refreshes,                      \* the login/refresh requests threads sent
    serial                          \* the caller lets one thread at a time in

sessVars == <<access_token, refresh_token, token_expiration,
              token_expiration_with_buffer, x_okapi_token>>
srvVars == <<nextTok, tokExp>>
opVars == <<op, chk, auth, reqs, answer, payload, result>>
itVars == <<it, yielded, cursors, pages, renewed>>
thrVars == <<thr, refreshes, serial>>
vars == <<pc, now, sessVars, closed, srvVars, opVars, nrec, noid, itVars, thrVars>>

\* ------------------------------------------------------ values and results
IntVal(n) == [type |-> "int", n |-> n, items |-> <<>>]
ListVal(s) == [type |-> "list", n |-> 0, items |-> s]
DictVal(s) == [type |-> "dict", n |-> 0, items |-> s]
NoneVal == [type |-> "none", n |-> 0, items |-> <<>>]

\* Python truthiness of a value
Truthy(v) ==
    CASE v.type = "int" -> v.n # 0
      [] v.type = "none" -> FALSE
      [] OTHER -> Len(v.items) > 0

Ret(v) == [tag |-> "ret", exc |-> "", status |-> 0, val |-> v]
Exc(e) == [tag |-> "exc", exc |-> e, status |-> 0, val |-> NoneVal]
HTTPStatusError(st) == [tag |-> "exc", exc |-> "HTTPStatusError", status |-> st,
                        val |-> NoneVal]
NoResult == [tag |-> "none", exc |-> "", status |-> 0, val |-> NoneVal]

\* _decorators.exception_handler applied to the outcome r of the wrapped call
\* mutant: a 404 is handed back as a status code like any other error status
exception_handler_no404(r) ==
    IF r.tag # "exc" THEN r
    ELSE CASE r.exc = "ConnectError" -> Exc("ConnectionError")
           [] r.exc = "TimeoutException" -> Exc("TimeoutError")
           [] r.exc = "HTTPStatusError" -> Ret(IntVal(r.status))
           [] OTHER -> r

\* mutant: an error status other than 404 stays the exception raise_for_status made
exception_handler_reraise(r) ==
    IF r.tag # "exc" THEN r
    ELSE CASE r.exc = "ConnectError" -> Exc("ConnectionError")
           [] r.exc = "TimeoutException" -> Exc("TimeoutError")
           [] r.exc = "HTTPStatusError" ->
                IF r.status = 404 THEN Exc("ItemNotFoundError") ELSE r
           [] OTHER -> r

exception_handler(r) ==
    IF r.tag # "exc" THEN r
    ELSE CASE r.exc = "ConnectError" -> Exc("ConnectionError")
           [] r.exc = "TimeoutException" -> Exc("TimeoutError")
           [] r.exc = "HTTPStatusError" ->
                IF r.status = 404 THEN Exc("ItemNotFoundError")
                ELSE Ret(IntVal(r.status))
           [] OTHER -> r

\* -------------------------------------------------------------- requests
Req(kind, hdr, ca, cr, creds) ==
    [kind |-> kind, hdr |-> hdr, cookieA |-> ca, cookieR |-> cr, creds |-> creds]

\* What client.post/get/put/delete and raise_for_status make of a response
Transport(kind) ==
    CASE kind = "connect" -> Exc("ConnectError")
      [] kind = "timeout" -> Exc("TimeoutException")
      [] kind = "s400" -> HTTPStatusError(400)
      [] kind = "s404" -> HTTPStatusError(404)
      [] kind = "s500" -> HTTPStatusError(500)
      [] OTHER -> Ret(NoneVal)

\* ---------------------------------------------------------------- session
Sess == [access_token |-> access_token, refresh_token |-> refresh_token,
         token_expiration |-> token_expiration,
         token_expiration_with_buffer |-> token_expiration_with_buffer,
         hdr |-> x_okapi_token]

SetSess(s) ==
    /\ access_token' = s.access_token
    /\ refresh_token' = s.refresh_token
    /\ token_expiration' = s.token_expiration
    /\ token_expiration_with_buffer' = s.token_expiration_with_buffer
    /\ x_okapi_token' = s.hdr

\* An ISO-8601 timestamp as the server writes it: the instant and its suffix
IsoStr(t, z) == [t |-> t, suffix |-> IF z THEN "Z" ELSE "+00:00"]
NoIso == [t |-> 0, suffix |-> "missing"]

\* str.replace("Z", "+00:00")
replace_Z(e) == [e EXCEPT !.suffix = IF @ = "Z" THEN "+00:00" ELSE @]

\* datetime.fromisoformat: the instant of a "+00:00" timestamp
fromisoformat(e) == IF e.suffix = "+00:00" THEN e.t ELSE -1

\* mutant: the buffer is added instead of subtracted
adjust_for_buffer_added(expiration) ==
    fromisoformat(replace_Z(expiration)) + TOKEN_REFRESH_BUFFER

adjust_for_buffer(expiration) ==
    fromisoformat(replace_Z(expiration)) - TOKEN_REFRESH_BUFFER

\* A login/refresh response: kind, the cookies and the body's expiry
\* (srvExp: the expiry the server keeps for the token it issued)
AuthResp(kind, tok, t, z) ==
    [kind |-> kind,
     access |-> IF kind \in {"ok", "noexp"} THEN tok ELSE None,
     refresh |-> IF kind \in {"ok", "noexp"} THEN tok ELSE None,
     exp |-> IF kind = "ok" THEN IsoStr(t, z) ELSE NoIso,
     srvExp |-> IF kind \in {"ok", "noexp"} THEN t ELSE 0]
NoAuthResp == [kind |-> "none", access |-> None, refresh |-> None, exp |-> NoIso,
               srvExp |-> 0]

\* The undecorated body of _retrieve_token on session s with response resp:
\* the session it leaves, the request it sent and how it ended
\* mutant: the response is not tested for an access token
retrieve_token_body_nocheck(s, refresh, resp) ==
    LET req == IF refresh
               THEN Req("refresh", s.hdr, s.access_token, s.refresh_token, FALSE)
               ELSE Req("login", None, None, None, TRUE)
        s1 == IF refresh THEN s ELSE [s EXCEPT !.hdr = None]
        tr == Transport(resp.kind)
        s2 == [s1 EXCEPT !.access_token = resp.access,
                         !.refresh_token = resp.refresh]
        s3 == [s2 EXCEPT !.token_expiration = fromisoformat(replace_Z(resp.exp)),
                         !.token_expiration_with_buffer = adjust_for_buffer(resp.exp)]
        s4 == IF s3.access_token # None THEN [s3 EXCEPT !.hdr = s3.access_token]
              ELSE s3
    IN  CASE tr.tag = "exc" -> [s |-> s1, req |-> req, r |-> tr]
          [] resp.exp = NoIso -> [s |-> s2, req |-> req, r |-> Exc("AttributeError")]
          [] OTHER -> [s |-> s4, req |-> req, r |-> Ret(NoneVal)]

\* mutant: the tokens of the response are not stored
retrieve_token_body_keep_tokens(s, refresh, resp) ==
    LET req == IF refresh
               THEN Req("refresh", s.hdr, s.access_token, s.refresh_token, FALSE)
               ELSE Req("login", None, None, None, TRUE)
        s1 == IF refresh THEN s ELSE [s EXCEPT !.hdr = None]
        tr == Transport(resp.kind)
        s3 == [s1 EXCEPT !.token_expiration = fromisoformat(replace_Z(resp.exp)),
                         !.token_expiration_with_buffer = adjust_for_buffer(resp.exp)]
    IN  CASE tr.tag = "exc" -> [s |-> s1, req |-> req, r |-> tr]
          [] resp.access = None -> [s |-> s1, req |-> req, r |-> Exc("RuntimeError")]
          [] resp.exp = NoIso -> [s |-> s1, req |-> req, r |-> Exc("AttributeError")]
          [] OTHER -> [s |-> s3, req |-> req, r |-> Ret(NoneVal)]

retrieve_token_body(s, refresh, resp) ==
    LET req == IF refresh
               THEN Req("refresh", s.hdr, s.access_token, s.refresh_token, FALSE)
               ELSE Req("login", None, None, None, TRUE)
        s1 == IF refresh THEN s ELSE [s EXCEPT !.hdr = None]
        tr == Transport(resp.kind)
        s2 == [s1 EXCEPT !.access_token = resp.access,
                         !.refresh_token = resp.refresh]
        s3 == [s2 EXCEPT !.token_expiration = fromisoformat(replace_Z(resp.exp)),
                         !.token_expiration_with_buffer = adjust_for_buffer(resp.exp)]
        s4 == IF s3.access_token # None THEN [s3 EXCEPT !.hdr = s3.access_token]
              ELSE s3
    IN  CASE tr.tag = "exc" -> [s |-> s1, req |-> req, r |-> tr]
          [] resp.access = None -> [s |-> s1, req |-> req, r |-> Exc("RuntimeError")]
          [] resp.exp = NoIso -> [s |-> s2, req |-> req, r |-> Exc("AttributeError")]
          [] OTHER -> [s |-> s4, req |-> req, r |-> Ret(NoneVal)]

\* The decorator around a call that ended as b
handled(b) == [b EXCEPT !.r = exception_handler(b.r)]

retrieve_token(s, refresh, resp) == handled(retrieve_token_body(s, refresh, resp))

\* mutant: a softly expired token triggers a fresh login
manage_branch_relogin(s, t) ==
    IF s.token_expiration_with_buffer < t /\ t < s.token_expiration THEN "login"
    ELSE IF s.token_expiration < t THEN "login"
    ELSE "noop"

\* mutant: a hard-expired token is refreshed like a softly expired one
manage_branch_refresh(s, t) ==
    IF s.token_expiration_with_buffer < t /\ t < s.token_expiration THEN "refresh"
    ELSE IF s.token_expiration < t THEN "refresh"
    ELSE "noop"

\* mutant: the expiry comparisons are not strict
manage_branch_le(s, t) ==
    IF s.token_expiration_with_buffer <= t /\ t < s.token_expiration THEN "refresh"
    ELSE IF s.token_expiration <= t THEN "login"
    ELSE "noop"

\* The branch _manage_token takes at time t
manage_branch(s, t) ==
    IF s.token_expiration_with_buffer < t /\ t < s.token_expiration THEN "refresh"
    ELSE IF s.token_expiration < t THEN "login"
    ELSE "noop"

\* _manage_token: the result of _retrieve_token is dropped, its exceptions
\* propagate
\* mutant: whatever the login or refresh raised is dropped
manage_result_swallow(s, br, b) ==
    IF br = "noop" THEN [s |-> s, reqs |-> <<>>, r |-> Ret(NoneVal), branch |-> br]
    ELSE [s |-> b.s, reqs |-> <<b.req>>, branch |-> br, r |-> Ret(NoneVal)]

manage_result(s, br, b) ==
    IF br = "noop" THEN [s |-> s, reqs |-> <<>>, r |-> Ret(NoneVal), branch |-> br]
    ELSE [s |-> b.s, reqs |-> <<b.req>>, branch |-> br,
          r |-> IF b.r.tag = "exc" THEN b.r ELSE Ret(NoneVal)]

manage_token(s, t, resp) ==
    manage_result(s, manage_branch(s, t),
                  retrieve_token(s, manage_branch(s, t) = "refresh", resp))

Check(s, t, br) ==
    [done |-> TRUE, now |-> t, branch |-> br, soft |-> s.token_expiration_with_buffer,
     exp |-> s.token_expiration, access |-> s.access_token,
     refresh |-> s.refresh_token, hdr |-> s.hdr]
NoCheck ==
    [done |-> FALSE, now |-> 0, branch |-> "none", soft |-> 0, exp |-> 0,
     access |-> None, refresh |-> None, hdr |-> None]


\* ----------------------------------------------------------------- server
\* The record with key k as the server serialises it
Record(k) == [key |-> k, id |-> IF k = noid THEN None ELSE k]

RECURSIVE PageFrom(_, _)
\* The (at most n) smallest-identifier records whose id is greater than c
PageFrom(c, n) ==
    IF n = 0 \/ c >= nrec THEN <<>>
    ELSE <<Record(c + 1)>> \o PageFrom(c + 1, n - 1)

\* A response to a data request: kind, status code and decoded body
DataResp(kind, body) ==
    [kind |-> kind,
     status |-> CASE kind = "ok" -> 200 [] kind = "nobody" -> 204
                  [] kind = "s400" -> 400 [] kind = "s404" -> 404
                  [] kind = "s500" -> 500 [] OTHER -> 0,
     body |-> IF kind = "ok" THEN body ELSE NoneVal]
NoResp == DataResp("none", NoneVal)

\* The page size a request asks for: get_data sends no limit parameter when
\* limit is 0, and the server then applies no limit of the caller's
params_limit(limit) == IF limit # 0 THEN limit ELSE nrec

\* Bodies response.json()[key] can be: the page asked for, or not a list
Bodies(c, limit) ==
    {ListVal(PageFrom(c, params_limit(limit))), DictVal(<<>>), DictVal(<<1>>)}
DataResps(c, limit) == {DataResp(k, b) : k \in DataKinds, b \in Bodies(c, limit)}
PlainResps == {DataResp(k, DictVal(<<1>>)) : k \in DataKinds}

\* The login/refresh responses the server can give at time t
AuthResps(t) ==
    {AuthResp(k, nextTok, t + l, z) :
        k \in {x \in AuthKinds : x \in {"ok", "noexp"} => nextTok <= MaxTokens},
        l \in Lifetimes, z \in BOOLEAN}

\* The responses an operation starting at time t can meet in its token check
AuthFor(s, t) ==
    IF manage_branch(s, t) = "noop" THEN {NoAuthResp} ELSE AuthResps(t)

\* The responses its own request can meet: none when the token check raised
DataFor(s, t, aresp, resps) ==
    IF manage_token(s, t, aresp).r.tag = "exc" THEN {NoResp} ELSE resps

\* ------------------------------------------------------------- operations
\* Common shape of what an operation did
Outcome(s, chk_, auth_, reqs_, r) ==
    [s |-> s, chk |-> chk_, auth |-> auth_, reqs |-> reqs_, r |-> r, answer |-> "none"]

\* ... of an operation whose own request was answered by dresp
Answered(o, dresp) == [o EXCEPT !.answer = dresp.kind]

\* token check followed by one request; body is the value the method returns
\* when the response is a success
\* (m: how the token check ended)
send_request(s, t, aresp, dresp, m, kind, ca, cr, body) ==
    IF m.r.tag = "exc"
    THEN Outcome(m.s, Check(s, t, m.branch), aresp, m.reqs, exception_handler(m.r))
    ELSE Answered(
           Outcome(m.s, Check(s, t, m.branch), aresp,
                   Append(m.reqs, Req(kind, m.s.hdr,
                                      IF ca THEN m.s.access_token ELSE None,
                                      IF cr THEN m.s.refresh_token ELSE None, FALSE)),
                   exception_handler(IF Transport(dresp.kind).tag = "exc"
                                     THEN Transport(dresp.kind) ELSE body)),
           dresp)

\* mutant: the request is sent without the token check
checked_request_unchecked(s, t, aresp, dresp, kind, ca, cr, body) ==
    Answered(
      Outcome(s, NoCheck, NoAuthResp,
              <<Req(kind, s.hdr, IF ca THEN s.access_token ELSE None,
                    IF cr THEN s.refresh_token ELSE None, FALSE)>>,
              exception_handler(IF Transport(dresp.kind).tag = "exc"
                                THEN Transport(dresp.kind) ELSE body)),
      dresp)

checked_request(s, t, aresp, dresp, kind, ca, cr, body) ==
    send_request(s, t, aresp, dresp, manage_token(s, t, aresp), kind, ca, cr, body)

logout(s, t, aresp, dresp) ==
    checked_request(s, t, aresp, dresp, "logout", TRUE, TRUE, Ret(NoneVal))

get_data(s, t, aresp, dresp) ==
    checked_request(s, t, aresp, dresp, "get", FALSE, FALSE,
                    IF dresp.kind = "nobody" THEN Exc("JSONDecodeError")
                    ELSE Ret(dresp.body))

post_data(s, t, aresp, dresp) ==
    checked_request(s, t, aresp, dresp, "post", FALSE, FALSE,
                    IF dresp.kind = "nobody" THEN Ret(IntVal(dresp.status))
                    ELSE Ret(dresp.body))

\* mutant: the payload is tested after the token check
put_data_late_check(s, t, aresp, dresp, emptyPayload) ==
    IF emptyPayload
    THEN LET m == manage_token(s, t, aresp)
         IN  Outcome(m.s, Check(s, t, m.branch), aresp, m.reqs,
                     IF m.r.tag = "exc" THEN m.r ELSE Exc("ValueError"))
    ELSE checked_request(s, t, aresp, dresp, "put", FALSE, FALSE,
                         IF dresp.kind = "nobody" THEN Ret(IntVal(dresp.status))
                         ELSE Ret(dresp.body))

put_data(s, t, aresp, dresp, emptyPayload) ==
    IF emptyPayload
    THEN Outcome(s, NoCheck, NoAuthResp, <<>>, exception_handler(Exc("ValueError")))
    ELSE checked_request(s, t, aresp, dresp, "put", FALSE, FALSE,
                         IF dresp.kind = "nobody" THEN Ret(IntVal(dresp.status))
                         ELSE Ret(dresp.body))

delete_data(s, t, aresp, dresp) ==
    checked_request(s, t, aresp, dresp, "delete", FALSE, FALSE,
                    Ret(IntVal(dresp.status)))

\* ---------------------------------------------------------------- actions
\* The tokens session s can still present
Held(s) == {s.access_token, s.refresh_token, s.hdr}
\* The tokens the requests rs presented
Presented(rs) == UNION {{rs[i].hdr, rs[i].cookieA, rs[i].cookieR} : i \in 1..Len(rs)}

\* The server issues a token exactly when it answers a login or refresh
\* request with cookies
Issue(o) ==
    IF \E i \in 1..Len(o.reqs) : o.reqs[i].kind \in {"login", "refresh"}
       /\ o.auth.kind \in {"ok", "noexp"}
    THEN /\ nextTok' = nextTok + 1
         /\ tokExp' = [k \in 1..MaxTokens |->
                         IF k = nextTok THEN o.auth.srvExp
                         ELSE IF k \in Held(o.s) \cup Presented(o.reqs)
                              THEN tokExp[k] ELSE 0]
    ELSE UNCHANGED srvVars

\* The operation name ran as o, given payload p ("none": it takes none)
RecordP(name, o, p) ==
    /\ SetSess(o.s)
    /\ Issue(o)
    /\ op' = name
    /\ answer' = o.answer
    /\ payload' = p
    /\ chk' = o.chk
    /\ auth' = [kind |-> o.auth.kind, access |-> o.auth.access,
                refresh |-> o.auth.refresh, exp |-> o.auth.exp.t]
    /\ reqs' = o.reqs
    /\ result' = o.r

Record_(name, o) == RecordP(name, o, "none")

NoAuthLog == [kind |-> "none", access |-> None, refresh |-> None, exp |-> 0]

NoIter == [pc |-> "none", limit |-> 0, data |-> NoneVal, idx |-> 0,
           current_uuid |-> Zero_UUID]

\* The threads that share the client
Threads == {1, 2}

InitSess ==
    /\ pc = "new"
    /\ access_token = None
    /\ refresh_token = None
    /\ token_expiration_with_buffer = 1
    /\ token_expiration \in {0, token_expiration_with_buffer}
    /\ now = token_expiration_with_buffer
    /\ x_okapi_token = None
    /\ closed = FALSE
    /\ nextTok = 1
    /\ tokExp = [k \in 1..MaxTokens |-> 0]
    /\ op = "none"
    /\ chk = NoCheck
    /\ auth = NoAuthLog
    /\ reqs = <<>>
    /\ answer = "none"
    /\ payload = "none"
    /\ result = NoResult
    /\ it = NoIter
    /\ yielded = <<>>
    /\ cursors = <<>>
    /\ pages = <<>>
    /\ renewed = {}
    /\ thr = [i \in Threads |-> [pc |-> "idle", branch |-> "noop", slot |-> 0]]
    /\ refreshes = <<>>

Init ==
    /\ InitSess
    /\ serial = TRUE
    /\ nrec = 1
    /\ noid = None

\* __init__, from the call of _retrieve_token on
Construct ==
    /\ pc = "new"
    /\ \E aresp \in AuthResps(now) :
       \E b \in {retrieve_token(Sess, FALSE, aresp)} :
             /\ Record_("init", Outcome(b.s, NoCheck, aresp, <<b.req>>, b.r))
             /\ pc' = IF b.r.tag = "exc" THEN "failed" ELSE "ready"
    /\ UNCHANGED <<now, closed, nrec, noid, thrVars, itVars>>

Tick ==
    /\ now < MaxTime
    /\ op = "none"
    /\ pc \in {"new", "ready"}
    /\ now' = now + 1
    /\ UNCHANGED <<pc, sessVars, closed, srvVars, opVars, nrec, noid, thrVars, itVars>>

\* isinstance(user_data, dict)
isinstance_dict(r) == r.tag = "ret" /\ r.val.type = "dict"

\* create_user has posted the user and goes on to post its permissions set
PermsPending == op = "create_user" /\ isinstance_dict(result)

\* The caller takes the result of the operation that ran
Return ==
    /\ op # "none"
    /\ ~PermsPending
    /\ pc \in {"ready", "new"}
    /\ op' = "none"
    /\ chk' = NoCheck
    /\ auth' = NoAuthLog
    /\ reqs' = <<>>
    /\ answer' = "none"
    /\ payload' = "none"
    /\ result' = NoResult
    /\ UNCHANGED <<pc, now, sessVars, closed, srvVars, nrec, noid, thrVars, itVars>>

GetData ==
    /\ pc = "ready"
    /\ op = "none"
    /\ \E limit \in 0..MaxLimit, aresp \in AuthFor(Sess, now) :
         \E dresp \in DataFor(Sess, now, aresp, DataResps(Zero_UUID, limit)) :
            Record_("get_data", get_data(Sess, now, aresp, dresp))
    /\ UNCHANGED <<pc, now, closed, nrec, noid, thrVars, itVars>>

PostData ==
    /\ pc = "ready"
    /\ op = "none"
    /\ \E aresp \in AuthFor(Sess, now) :
         \E dresp \in DataFor(Sess, now, aresp, PlainResps) :
            RecordP("post_data", post_data(Sess, now, aresp, dresp), "full")
    /\ UNCHANGED <<pc, now, closed, nrec, noid, thrVars, itVars>>

PutData ==
    /\ pc = "ready"
    /\ op = "none"
    /\ \/ RecordP("put_data", put_data(Sess, now, NoAuthResp, NoResp, TRUE), "empty")
       \/ \E aresp \in AuthFor(Sess, now) :
            \E dresp \in DataFor(Sess, now, aresp, PlainResps) :
               RecordP("put_data", put_data(Sess, now, aresp, dresp, FALSE), "full")
    /\ UNCHANGED <<pc, now, closed, nrec, noid, thrVars, itVars>>

DeleteData ==
    /\ pc = "ready"
    /\ op = "none"
    /\ \E aresp \in AuthFor(Sess, now) :
         \E dresp \in DataFor(Sess, now, aresp, PlainResps) :
            Record_("delete_data", delete_data(Sess, now, aresp, dresp))
    /\ UNCHANGED <<pc, now, closed, nrec, noid, thrVars, itVars>>

\* __exit__: the connection is closed when _logout returns
Exit ==
    /\ pc = "ready"
    /\ op = "none"
    /\ \E aresp \in AuthFor(Sess, now) :
       \E dresp \in DataFor(Sess, now, aresp, PlainResps) :
       \E o \in {logout(Sess, now, aresp, dresp)} :
             /\ Record_("exit", o)
             /\ closed' = (o.r.tag # "exc")
    /\ pc' = "exited"
    /\ UNCHANGED <<now, nrec, noid, thrVars, itVars>>

Next == Construct \/ Tick \/ Return \/ GetData \/ PostData \/ PutData \/ DeleteData \/ Exit

Spec == Init /\ [][Next]_vars

\* ---------------------------------------------------------------- threads
\* get_data called from several threads on one client. Each thread goes
\* through the statements of _manage_token and _retrieve_token on its own;
\* nothing in the class orders them.

\* The caller's lock, where there is one: a thread enters an operation only
\* while no other thread is inside one
MayStart(i) == serial => \A j \in Threads \ {i} : thr[j].pc = "idle"

\* now = datetime.now(tz.utc) and the two comparisons of _manage_token
TCheck(i) ==
    /\ pc = "ready"
    /\ op = "none"
    /\ thr[i].pc = "idle"
    /\ MayStart(i)
    /\ \E br \in {manage_branch(Sess, now)} :
         thr' = [thr EXCEPT ![i] = [pc |-> IF br = "noop" THEN "request" ELSE "checked",
                                    branch |-> br, slot |-> 0]]
    /\ UNCHANGED <<pc, now, sessVars, closed, srvVars, opVars, nrec, noid, itVars,
                   refreshes, serial>>

\* _retrieve_token up to self.client.post(...): the cookies are read and, for
\* a login, the header is popped; the request leaves
TSend(i) ==
    /\ pc = "ready"
    /\ op = "none"
    /\ thr[i].pc = "checked"
    /\ Len(refreshes) < MaxAuthLog
    /\ \E b \in {retrieve_token_body(Sess, thr[i].branch = "refresh", NoAuthResp)} :
         /\ SetSess(b.s)
         /\ refreshes' = Append(refreshes,
                                [kind |-> b.req.kind, access |-> b.req.cookieA,
                                 answer |-> "pending"])
    /\ thr' = [thr EXCEPT ![i].pc = "sent", ![i].slot = Len(refreshes) + 1]
    /\ UNCHANGED <<pc, now, closed, srvVars, opVars, nrec, noid, itVars, serial>>

\* ... and from the response on: raise_for_status and the assignments of the
\* session fields. A raise ends the operation, anything else lets get_data go
\* on to its request
TWrite(i) ==
    /\ pc = "ready"
    /\ op = "none"
    /\ thr[i].pc = "sent"
    /\ \E aresp \in AuthResps(now) :
       \E b \in {retrieve_token(Sess, thr[i].branch = "refresh", aresp)} :
         /\ SetSess(b.s)
         /\ Issue([reqs |-> <<b.req>>, auth |-> aresp, s |-> b.s])
         /\ refreshes' = [refreshes EXCEPT ![thr[i].slot].answer =
                                            IF b.r = Ret(NoneVal) THEN "ok" ELSE "failed"]
         /\ thr' = [thr EXCEPT ![i].pc = IF b.r.tag = "exc" THEN "idle" ELSE "request",
                                ![i].slot = 0]
    /\ UNCHANGED <<pc, now, closed, opVars, nrec, noid, itVars, serial>>

\* get_data's own request and return; neither writes a field of the session
TRequest(i) ==
    /\ pc = "ready"
    /\ op = "none"
    /\ thr[i].pc = "request"
    /\ thr' = [thr EXCEPT ![i].pc = "idle"]
    /\ UNCHANGED <<pc, now, sessVars, closed, srvVars, opVars, nrec, noid, itVars,
                   refreshes, serial>>

\* Time passes at any point of the threads' operations
TickThreads ==
    /\ Tick
    /\ now < MaxThreadTime

InitThreads ==
    /\ InitSess
    /\ serial \in BOOLEAN
    /\ nrec = 1
    /\ noid = None

NextThreads ==
    \/ Construct
    \/ Return
    \/ TickThreads
    \/ \E i \in Threads : TCheck(i) \/ TSend(i) \/ TWrite(i) \/ TRequest(i)

SpecThreads == InitThreads /\ [][NextThreads]_vars

\* ----------------------------------------------------------- create_user
\* create_user(payload) up to the return of post_data("/users", payload)
CreateUser ==
    /\ pc = "ready"
    /\ op = "none"
    /\ \E aresp \in AuthFor(Sess, now) :
         \E dresp \in DataFor(Sess, now, aresp, PlainResps), p \in {"empty", "full"} :
            RecordP("create_user", post_data(Sess, now, aresp, dresp), p)
    /\ UNCHANGED <<pc, now, closed, nrec, noid, thrVars, itVars>>

\* ... and its post of the empty permissions set; create_user then returns
\* user_data unless this post raised
CreatePerms ==
    /\ pc = "ready"
    /\ PermsPending
    /\ \E aresp \in AuthFor(Sess, now) :
         \E dresp \in DataFor(Sess, now, aresp, PlainResps) :
         \E o \in {post_data(Sess, now, aresp, dresp)} :
            RecordP("create_user_perms",
                    [o EXCEPT !.r = IF o.r.tag = "exc" THEN o.r ELSE result],
                    payload)
    /\ UNCHANGED <<pc, now, closed, nrec, noid, thrVars, itVars>>

NextUsers == Construct \/ Tick \/ Return \/ CreateUser \/ CreatePerms

SpecUsers == Init /\ [][NextUsers]_vars

\* ------------------------------------------------------------- iter_data
\* mutant: the cursor is taken from the first record of the page
last_id_first(d) == d.items[1].id

\* data[-1].get("id")
last_id(d) == d.items[Len(d.items)].id

\* mutant: `while data is not None:`, so that an empty page enters the loop and
\* data[-1] raises
loop_entry_not_none(f, d) ==
    IF d.type = "none" THEN [f EXCEPT !.pc = "done", !.data = d]
    ELSE IF d.type # "list" \/ Len(d.items) = 0
         THEN [f EXCEPT !.pc = "raised", !.data = d]
    ELSE [f EXCEPT !.pc = "suspended", !.data = d, !.idx = 1]

\* mutant: a page shorter than the limit is taken for the end of the data
loop_entry_stop_short(f, d) ==
    IF ~Truthy(d) \/ (d.type = "list" /\ Len(d.items) < f.limit)
    THEN [f EXCEPT !.pc = "done", !.data = d]
    ELSE IF d.type # "list" THEN [f EXCEPT !.pc = "raised", !.data = d]
    ELSE [f EXCEPT !.pc = "suspended", !.data = d, !.idx = 1]

\* The generator's frame once `while data:` is evaluated on page d: finished,
\* raised "Invalid response format", or suspended in `yield from` at d[0]
loop_entry(f, d) ==
    IF ~Truthy(d) THEN [f EXCEPT !.pc = "done", !.data = d]
    ELSE IF d.type # "list" THEN [f EXCEPT !.pc = "raised", !.data = d]
    ELSE [f EXCEPT !.pc = "suspended", !.data = d, !.idx = 1]

\* What next() hands the consumer when the generator reaches frame f
next_result(f) ==
    CASE f.pc = "done" -> Exc("StopIteration")
      [] f.pc = "raised" -> Exc("RuntimeError")
      [] OTHER -> Ret(IntVal(f.data.items[f.idx].key))

\* The frame after get_data(endpoint, key, current_query, limit) ended as o
after_fetch(f, o) ==
    IF o.r.tag = "exc" THEN [f EXCEPT !.pc = "raised"] ELSE loop_entry(f, o.r.val)

Sent(o, kind) == \E i \in 1..Len(o.reqs) : o.reqs[i].kind = kind

\* mutant: after a token renewal the page request starts over from Zero_UUID
Fetch_restart(f, c) ==
    \E aresp \in AuthFor(Sess, now) :
    \E cc \in {IF aresp.kind = "ok" THEN Zero_UUID ELSE c} :
    \E dresp \in DataFor(Sess, now, aresp, DataResps(cc, f.limit)) :
    \E o \in {get_data(Sess, now, aresp, dresp)} :
    \E g \in {after_fetch([f EXCEPT !.current_uuid = cc], o)} :
            /\ it' = g
            /\ Record_("next", [o EXCEPT !.r = IF o.r.tag = "exc" THEN o.r
                                               ELSE next_result(g)])
            /\ cursors' = IF Sent(o, "get") THEN Append(cursors, cc) ELSE cursors
            /\ pages' = IF o.r.tag = "ret" THEN Append(pages, o.r.val) ELSE pages
            /\ yielded' = IF g.pc = "suspended"
                          THEN Append(yielded, g.data.items[g.idx].key)
                          ELSE yielded
            /\ renewed' = IF cursors # <<>> /\ o.auth.kind = "ok"
                          THEN renewed \cup {o.chk.branch} ELSE renewed

\* One page request with cursor c made by the generator in frame f
Fetch(f, c) ==
    \E aresp \in AuthFor(Sess, now) :
    \E dresp \in DataFor(Sess, now, aresp, DataResps(c, f.limit)) :
    \E o \in {get_data(Sess, now, aresp, dresp)} :
    \E g \in {after_fetch([f EXCEPT !.current_uuid = c], o)} :
            /\ it' = g
            /\ Record_("next", [o EXCEPT !.r = IF o.r.tag = "exc" THEN o.r
                                               ELSE next_result(g)])
            /\ cursors' = IF Sent(o, "get") THEN Append(cursors, c) ELSE cursors
            /\ pages' = IF o.r.tag = "ret" THEN Append(pages, o.r.val) ELSE pages
            /\ yielded' = IF g.pc = "suspended"
                          THEN Append(yielded, g.data.items[g.idx].key)
                          ELSE yielded
            /\ renewed' = IF cursors # <<>> /\ o.auth.kind = "ok"
                          THEN renewed \cup {o.chk.branch} ELSE renewed

NoRequest(r) == Outcome(Sess, NoCheck, NoAuthResp, <<>>, r)

\* iter_data(...) is called: a generator is made, none of its code runs
IterData ==
    /\ pc = "ready"
    /\ op = "none"
    /\ it.pc = "none"
    /\ \E limit \in 0..MaxLimit :
         it' = [NoIter EXCEPT !.pc = "created", !.limit = limit]
    /\ UNCHANGED <<pc, now, sessVars, closed, srvVars, opVars, nrec, noid, thrVars,
                   yielded, cursors, pages, renewed>>

\* mutant: only a negative limit is rejected
limit_rejected_negative(limit) == limit < 0

\* `if limit == 0:`
limit_rejected(limit) == limit = 0

\* first next(): the limit test and the initial get_data
NextStart ==
    /\ pc = "ready"
    /\ op = "none"
    /\ it.pc = "created"
    /\ IF limit_rejected(it.limit)
       THEN /\ it' = [it EXCEPT !.pc = "raised"]
            /\ Record_("next", NoRequest(Exc("ValueError")))
            /\ UNCHANGED <<yielded, cursors, pages, renewed>>
       ELSE Fetch(it, Zero_UUID)
    /\ UNCHANGED <<pc, now, closed, nrec, noid, thrVars>>

\* mutant: handing out the last record of a page, the generator already asks
\* for the page after it
NextInPage_prefetch ==
    /\ pc = "ready"
    /\ op = "none"
    /\ it.pc = "suspended"
    /\ it.idx < Len(it.data.items)
    /\ Len(yielded) < MaxYield
    /\ it' = [it EXCEPT !.idx = @ + 1]
    /\ Record_("next", NoRequest(next_result(it')))
    /\ yielded' = Append(yielded, it.data.items[it.idx + 1].key)
    /\ IF it.idx + 1 = Len(it.data.items) /\ last_id(it.data) # None
       THEN /\ cursors' = Append(cursors, last_id(it.data))
            /\ pages' = Append(pages, ListVal(PageFrom(last_id(it.data), it.limit)))
       ELSE UNCHANGED <<cursors, pages>>
    /\ UNCHANGED <<pc, now, closed, nrec, noid, thrVars, renewed>>

\* next() inside `yield from data`
NextInPage ==
    /\ pc = "ready"
    /\ op = "none"
    /\ it.pc = "suspended"
    /\ it.idx < Len(it.data.items)
    /\ Len(yielded) < MaxYield
    /\ it' = [it EXCEPT !.idx = @ + 1]
    /\ Record_("next", NoRequest(next_result(it')))
    /\ yielded' = Append(yielded, it.data.items[it.idx + 1].key)
    /\ UNCHANGED <<pc, now, closed, nrec, noid, thrVars, cursors, pages, renewed>>

\* next() after the last record of the page: lines 357-364, then `while data:`
NextPage ==
    /\ pc = "ready"
    /\ op = "none"
    /\ it.pc = "suspended"
    /\ it.idx = Len(it.data.items)
    /\ Len(yielded) < MaxYield
    /\ IF last_id(it.data) # None
       THEN Fetch(it, last_id(it.data))
       ELSE /\ it' = loop_entry([it EXCEPT !.current_uuid = None], it.data)
            /\ Record_("next", NoRequest(next_result(it')))
            /\ yielded' = Append(yielded, it'.data.items[it'.idx].key)
            /\ UNCHANGED <<cursors, pages, renewed>>
    /\ UNCHANGED <<pc, now, closed, nrec, noid, thrVars>>

InitIter ==
    /\ InitSess
    /\ serial = TRUE
    /\ nrec \in 0..MaxN
    /\ noid \in 0..nrec

NextIter == Construct \/ Return \/ IterData \/ NextStart \/ NextInPage \/ NextPage

SpecIter == InitIter /\ [][NextIter]_vars

\* Time passes while the consumer holds the last record of a page. The
\* generator reads the clock only in the token check of a page request, so
\* all the time that passes between two page requests is accounted for here.
TickBetweenPages ==
    /\ Tick
    /\ now < MaxIterTime
    /\ pc = "ready"
    /\ it.pc = "suspended"
    /\ it.idx = Len(it.data.items)

\* ... with the clock running while the consumer consumes
NextIterClock == NextIter \/ TickBetweenPages

\* ... against a server whose records all carry an identifier
InitIterClock ==
    /\ InitSess
    /\ serial = TRUE
    /\ nrec \in 0..MaxN
    /\ noid = None

SpecIterClock == InitIterClock /\ [][NextIterClock]_vars

\* ----------------------------------------------------------------- claims
RECURSIVE Fetched(_)
\* The number of records in the list pages of ps
Fetched(ps) ==
    IF ps = <<>> THEN 0
    ELSE (IF Head(ps).type = "list" THEN Len(Head(ps).items) ELSE 0) + Fetched(Tail(ps))

\* Every page request was answered with the page it asked for
AllHonest ==
    /\ Len(pages) = Len(cursors)
    /\ \A i \in 1..Len(pages) : pages[i] = ListVal(PageFrom(cursors[i], it.limit))

\* The token check of the last operation found the token softly expired
SoftExpired == chk.done /\ chk.soft < chk.now /\ chk.now < chk.exp
\* ... or hard-expired
HardExpired == chk.done /\ chk.exp < chk.now

IsAuthReq(q) == q.kind \in {"login", "refresh"}

\* C1: against a server whose records all carry an identifier and that answers
\* every page request with the page asked for, an iteration that runs to
\* exhaustion has yielded records 1..nrec, each once, in ascending order.
C1_PaginationComplete ==
    (it.pc = "done" /\ noid = None /\ AllHonest)
        => yielded = [i \in 1..nrec |-> i]

C1_Witness ==
    /\ it.pc = "done" /\ noid = None /\ AllHonest
    /\ it.limit = 2 /\ nrec = 3 * it.limit /\ Len(cursors) = 4

\* C2: an empty page is the last page fetched: the generator finishes in the
\* step that fetched it, having yielded the records of the earlier pages and
\* nothing else; an empty first page gives no record after one page request.
C2_EmptyPageEnds ==
    \A i \in 1..Len(pages) :
        pages[i] = ListVal(<<>>) =>
            /\ i = Len(pages)
            /\ Len(cursors) = i
            /\ it.pc = "done"
            /\ Len(yielded) = Fetched(pages)
            /\ (i = 1 => yielded = <<>>)

C2_Witness ==
    /\ it.pc = "done"
    /\ Len(pages) = 3 /\ pages[3] = ListVal(<<>>)
    /\ Len(yielded) = 3

\* C3: when the last record of the last fetched page has no identifier, no
\* record beyond those fetched is yielded.
C3_StopsWithoutId ==
    (/\ pages # <<>>
     /\ pages[Len(pages)].type = "list"
     /\ pages[Len(pages)].items # <<>>
     /\ last_id(pages[Len(pages)]) = None)
        => Len(yielded) <= Fetched(pages)

\* C4: no request of an operation with a token check presents, in the
\* x-okapi-token header or in the Cookie header, an access token that expired
\* before the time the check observed.
C4_NoExpiredTokenSent ==
    chk.done =>
        \A i \in 1..Len(reqs) :
            /\ reqs[i].hdr # None => tokExp[reqs[i].hdr] >= chk.now
            /\ reqs[i].cookieA # None => tokExp[reqs[i].cookieA] >= chk.now

\* C5: a token check that finds soft_expires_at < now < expires_at sends one
\* refresh request, first, presenting the current tokens as cookies; no login
\* request is sent and no request carries the credentials.
C5_SoftExpiredRefreshes ==
    SoftExpired =>
        /\ Len(reqs) >= 1
        /\ reqs[1] = Req("refresh", chk.hdr, chk.access, chk.refresh, FALSE)
        /\ \A i \in 2..Len(reqs) : ~IsAuthReq(reqs[i])
        /\ \A i \in 1..Len(reqs) : ~reqs[i].creds

C5_Witness ==
    /\ SoftExpired /\ chk.access # None
    /\ Len(reqs) = 2 /\ reqs[2].kind = "get" /\ auth.kind = "ok"

\* C6: a token check that finds expires_at < now sends one login request with
\* the credentials, first, and no refresh request; when the login succeeds the
\* session holds the newly issued tokens and the expiries of the response.
C6_HardExpiredRelogin ==
    HardExpired =>
        /\ Len(reqs) >= 1
        /\ reqs[1].kind = "login" /\ reqs[1].creds
        /\ \A i \in 2..Len(reqs) : ~IsAuthReq(reqs[i])
        /\ auth.kind = "ok" =>
            /\ access_token = auth.access /\ access_token \notin {None, chk.access}
            /\ refresh_token = auth.refresh /\ refresh_token \notin {None, chk.refresh}
            /\ token_expiration = auth.exp
            /\ token_expiration_with_buffer = auth.exp - TOKEN_REFRESH_BUFFER

C6_Witness ==
    /\ HardExpired /\ chk.access # None /\ auth.kind = "ok"
    /\ Len(reqs) = 2 /\ reqs[2].kind = "post"

\* C7: a token check that finds neither condition (now on a bound included)
\* sends no login or refresh request, and the operation leaves the tokens, the
\* expiries and the x-okapi-token header as they were.
C7_OtherwiseNoop ==
    (chk.done /\ ~SoftExpired /\ ~HardExpired) =>
        /\ \A i \in 1..Len(reqs) : ~IsAuthReq(reqs[i])
        /\ access_token = chk.access
        /\ refresh_token = chk.refresh
        /\ token_expiration = chk.exp
        /\ token_expiration_with_buffer = chk.soft
        /\ x_okapi_token = chk.hdr

C7_Witness ==
    /\ chk.done /\ chk.now = chk.exp /\ chk.access # None
    /\ Len(reqs) = 1 /\ reqs[1].kind = "delete" /\ reqs[1].hdr = chk.access

\* C8: after a successful login or refresh the soft expiry is the expiry the
\* response reported minus TOKEN_REFRESH_BUFFER.
C8_TokenBuffering ==
    (op # "none" /\ auth.kind = "ok") =>
        /\ token_expiration = auth.exp
        /\ token_expiration_with_buffer = token_expiration - TOKEN_REFRESH_BUFFER

C8_Witness ==
    /\ op # "none" /\ auth.kind = "ok"
    /\ reqs # <<>> /\ reqs[1].kind = "refresh"
    /\ token_expiration_with_buffer < now

\* C9: soft_expires_at <= expires_at in every state of the session.
C9_SoftBeforeHard == token_expiration_with_buffer <= token_expiration

\* C10: when the context manager has exited, the connection is closed.
C10_ClosedOnExit == pc = "exited" => closed

\* The operations that send one data request
DataOps == {"get_data", "post_data", "put_data", "delete_data"}

\* C11: a data request of get_data, post_data, put_data or delete_data that is
\* answered 404 makes the operation raise ItemNotFoundError.
C11_NotFoundRaised ==
    (op \in DataOps /\ answer = "s404") => result = Exc("ItemNotFoundError")

C11_Witness ==
    /\ op = "delete_data" /\ answer = "s404"
    /\ reqs[Len(reqs)].kind = "delete"
    /\ result = Exc("ItemNotFoundError")

\* C12: a get_data request, or a page request of an iteration, that is
\* answered 400 makes the operation raise BadRequestError.
C12_BadRequestRaised ==
    (op \in {"get_data", "next"} /\ answer = "s400") => result = Exc("BadRequestError")

\* What a transport failure of the given kind must reach the caller as
Surfaced(kind) ==
    IF kind = "connect" THEN Exc("ConnectionError") ELSE Exc("TimeoutError")

TransportFailures == {"connect", "timeout"}

\* The requests of the sequence rs that are not a login or a refresh
OwnRequests(rs) == {i \in 1..Len(rs) : ~IsAuthReq(rs[i])}

\* C13: a request that fails to connect or times out ends the operation with
\* ConnectionError or TimeoutError; it was sent once and is the last request
\* the operation sent.
C13_TransportErrorsOnce ==
    /\ (op # "none" /\ auth.kind \in TransportFailures) =>
            /\ result = Surfaced(auth.kind)
            /\ Len(reqs) = 1 /\ IsAuthReq(reqs[1])
    /\ (op # "none" /\ answer \in TransportFailures) =>
            /\ result = Surfaced(answer)
            /\ OwnRequests(reqs) = {Len(reqs)}

C13_Witness ==
    /\ op = "get_data" /\ answer = "timeout"
    /\ Len(reqs) = 2 /\ reqs[1].kind = "refresh" /\ reqs[2].kind = "get"
    /\ result = Exc("TimeoutError")

C15_ZeroLimitNoRequest ==
    (it.limit = 0 /\ it.pc \notin {"none", "created"}) =>
        /\ it.pc = "raised"
        /\ yielded = <<>> /\ cursors = <<>> /\ pages = <<>>
        /\ op = "next" =>
              /\ result = Exc("ValueError")
              /\ reqs = <<>> /\ ~chk.done /\ auth = NoAuthLog /\ answer = "none"

C15_Witness ==
    /\ it.limit = 0 /\ it.pc = "raised"
    /\ op = "next" /\ result = Exc("ValueError") /\ reqs = <<>>
    /\ token_expiration_with_buffer < now /\ now < token_expiration

\* C16: put_data given an empty payload raises ValueError without a token
\* check and without sending a login, a refresh or the PUT, and leaves the
\* session and the server as they were.
C16_EmptyPutNoEffect ==
    [][(op' = "put_data" /\ payload' = "empty") =>
            /\ result' = Exc("ValueError")
            /\ reqs' = <<>> /\ ~chk'.done /\ auth' = NoAuthLog /\ answer' = "none"
            /\ UNCHANGED <<sessVars, srvVars>>]_vars

C16_Witness ==
    /\ op = "put_data" /\ payload = "empty"
    /\ result = Exc("ValueError") /\ reqs = <<>>
    /\ x_okapi_token # None /\ token_expiration < now

\* C17: create_user given an empty payload raises ValueError.
C17_EmptyCreateRaises ==
    (op \in {"create_user", "create_user_perms"} /\ payload = "empty")
        => result = Exc("ValueError")

\* C18: a login or refresh whose response carries no access token makes the
\* operation raise RuntimeError; the login or refresh is the only request the
\* operation sent.
C18_NoTokenFatal ==
    (op # "none" /\ auth.kind = "noaccess") =>
        /\ result = Exc("RuntimeError")
        /\ Len(reqs) = 1 /\ IsAuthReq(reqs[1]) /\ answer = "none"

C18_Witness ==
    /\ op = "get_data" /\ auth.kind = "noaccess"
    /\ Len(reqs) = 1 /\ reqs[1].kind = "refresh"
    /\ result = Exc("RuntimeError")

\* C19: a login or refresh answered with an HTTP error status makes the
\* operation raise RuntimeError; the login or refresh is the only request the
\* operation sent.
C19_AuthStatusRaised ==
    (op # "none" /\ auth.kind \in {"s404", "s500"}) =>
        /\ result = Exc("RuntimeError")
        /\ Len(reqs) = 1 /\ IsAuthReq(reqs[1])

CeilDiv(n, p) == (n + p - 1) \div p

\* C20: against a server whose records all carry an identifier and that answers
\* every page request with the page asked for, the first page request has the
\* cursor Zero_UUID, every later one the id of the last record of the page
\* before it, the cursors increase strictly, and an iteration that has run to
\* exhaustion has made ceil(nrec / limit) + 1 page requests.
C20_PageRequests ==
    (noid = None /\ AllHonest /\ it.limit > 0) =>
        /\ cursors # <<>> => cursors[1] = Zero_UUID
        /\ \A i \in 2..Len(cursors) :
              /\ cursors[i] = last_id(pages[i - 1])
              /\ cursors[i] > cursors[i - 1]
        /\ it.pc = "done" => Len(cursors) = CeilDiv(nrec, it.limit) + 1

C20_Witness ==
    /\ it.pc = "done" /\ noid = None /\ AllHonest
    /\ nrec = 4 /\ it.limit = 2
    /\ cursors = <<Zero_UUID, 2, 4>>

\* C21: an operation that sent a data request or the logout request made one
\* token check first, at the time of the operation; at most the one login or
\* refresh of that check precedes the request, which is the last one sent.
C21_CheckedBeforeRequest ==
    (op \in DataOps \cup {"exit"} /\ OwnRequests(reqs) # {}) =>
        /\ chk.done /\ chk.now = now
        /\ OwnRequests(reqs) = {Len(reqs)}
        /\ Len(reqs) = (IF chk.branch = "noop" THEN 1 ELSE 2)

C21_Witness ==
    /\ op = "exit" /\ chk.done /\ chk.branch = "refresh"
    /\ Len(reqs) = 2 /\ reqs[1].kind = "refresh" /\ reqs[2].kind = "logout"

\* C22: once the session holds an access token, every data request carries
\* that token, the most recently issued one, in its x-okapi-token header.
C22_LatestTokenSent ==
    (op \in DataOps /\ OwnRequests(reqs) # {} /\ access_token # None) =>
        reqs[Len(reqs)].hdr = access_token

\* C25: when the constructor has returned without raising, the session holds
\* the access token of the login response, the x-okapi-token header carries
\* it, and the two expiry fields are those of the login response.
C25_ConstructedAuthenticated ==
    (op = "init" /\ pc = "ready") =>
        /\ auth.kind = "ok"
        /\ access_token # None /\ access_token = auth.access
        /\ x_okapi_token = access_token
        /\ token_expiration = auth.exp
        /\ token_expiration_with_buffer = auth.exp - TOKEN_REFRESH_BUFFER

\* C26: an operation's login or refresh either succeeds and replaces the five
\* session fields by the values of the response, or fails and leaves all five
\* as they were.
C26_AtomicTokenUpdate ==
    [][(op = "none" /\ op' # "none" /\ auth'.kind # "none") =>
            IF auth'.kind = "ok"
            THEN /\ access_token' = auth'.access
                 /\ refresh_token' = auth'.refresh
                 /\ token_expiration' = auth'.exp
                 /\ token_expiration_with_buffer' = auth'.exp - TOKEN_REFRESH_BUFFER
                 /\ x_okapi_token' = auth'.access
            ELSE UNCHANGED sessVars]_vars

\* C24: a next() whose page request returned a value that is not a list raises
\* RuntimeError.
C24_NonListRaises ==
    (op = "next" /\ answer # "none" /\ pages # <<>>
        /\ pages[Len(pages)].type # "list")
        => (result = Exc("RuntimeError") /\ it.pc = "raised")

\* C23: no page request is made before the first next(); a next() that hands
\* out a record of the page already fetched sends nothing; and against a
\* server that answers every page request with the page asked for, a consumer
\* that has taken k >= 1 records has caused ceil(k / limit) page requests.
C23_NoPrefetch ==
    /\ it.pc \in {"none", "created"} => cursors = <<>>
    /\ (op = "next" /\ it.pc = "suspended" /\ it.idx > 1) =>
            (reqs = <<>> /\ ~chk.done)
    /\ (it.pc = "suspended" /\ noid = None /\ AllHonest) =>
            Len(cursors) = CeilDiv(Len(yielded), it.limit)

C23_Witness ==
    /\ it.pc = "suspended" /\ noid = None /\ AllHonest
    /\ it.limit = 2 /\ nrec = 5 /\ Len(yielded) = 4 /\ Len(cursors) = 2
    /\ op = "next" /\ reqs = <<>>

Ascending(n) == [i \in 1..n |-> i]

\* C28: against a server whose records all carry an identifier and that answers
\* every page request with the page asked for, a page request that follows a
\* successful refresh or re-login of its own token check has the id of the
\* last record of the page before it as cursor; the records yielded so far are
\* 1, 2, ... in order; and an iteration in which page requests renewed the
\* token ends having yielded records 1..nrec.
C28_RenewalKeepsCursor ==
    (noid = None /\ AllHonest) =>
        /\ (op = "next" /\ auth.kind = "ok" /\ answer # "none" /\ Len(cursors) >= 2) =>
                cursors[Len(cursors)] = last_id(pages[Len(cursors) - 1])
        /\ yielded = Ascending(Len(yielded))
        /\ (it.pc = "done" /\ renewed # {}) => yielded = Ascending(nrec)

C28_Witness ==
    /\ it.pc = "done" /\ noid = None /\ AllHonest
    /\ "login" \in renewed
    /\ it.limit = 2 /\ nrec = 4 /\ cursors = <<Zero_UUID, 2, 4>>

\* Two refresh requests presented the same access token
SameTokenRefreshes(i, j) ==
    /\ refreshes[i].kind = "refresh" /\ refreshes[j].kind = "refresh"
    /\ refreshes[i].access = refreshes[j].access

\* C27: when the threads run their operations one at a time, a refresh that
\* succeeded is never followed by another refresh presenting the same token.
\* (Without that ordering it is: C27_Witness.)
C27_SerialRefreshOnce ==
    serial =>
        \A i, j \in 1..Len(refreshes) :
            (i < j /\ SameTokenRefreshes(i, j)) => refreshes[i].answer # "ok"

C27_Witness ==
    /\ ~serial
    /\ thr[1].pc = "sent" /\ thr[2].pc = "sent"
    /\ Len(refreshes) = 2 /\ SameTokenRefreshes(1, 2)
    /\ refreshes[1].access # None /\ refreshes[1].access = access_token
    /\ token_expiration_with_buffer < now /\ now < token_expiration

=============================================================================
